---- MODULE Spec2Model ----
(***************************************************************************)
(* Model of vector.py: the Vector class over decimal.Decimal coordinates   *)
(* and the free function cross_product.                                    *)
(*                                                                         *)
(* A Decimal is modelled as <<c, e>>, the number c * 10^e, kept canonical  *)
(* (no trailing zero in c, zero is <<0, 0>>) so that numeric equality of   *)
(* Decimals is equality of the pairs.  Construction Decimal(x) is exact;   *)
(* every arithmetic result is rounded to the context precision, half-even, *)
(* as the decimal module's default context does.  The default context      *)
(* carries 28 significant digits; the model carries ModelPrec digits so    *)
(* that coefficients stay inside TLC's integers.                           *)
(***************************************************************************)
EXTENDS Integers, Sequences, FiniteSets, TLC

\* significant digits carried by the modelled decimal context
ModelPrec == 2
\* Vector objects the caller constructs directly
MaxInputs == 2
\* operations called in one run of the full interface
MaxCalls == 1
\* operations called in one run of the + / - interface
MaxChain == 2

DEFAULT_TOLERANCE == <<1, -10>>

----------------------------------------------------------------------------
(* decimal.Decimal *)

RECURSIVE Pow10(_)
Pow10(n) == IF n <= 0 THEN 1 ELSE 10 * Pow10(n - 1)

AbsInt(n) == IF n < 0 THEN -n ELSE n

SignInt(n) == IF n < 0 THEN -1 ELSE IF n = 0 THEN 0 ELSE 1

RECURSIVE Digits(_)
Digits(n) == IF AbsInt(n) < 10 THEN 1 ELSE 1 + Digits(AbsInt(n) \div 10)

\* canonical pair of c * 10^e
RECURSIVE Dec(_, _)
Dec(c, e) ==
    IF c = 0 THEN <<0, 0>>
    ELSE IF c % 10 = 0 THEN Dec(c \div 10, e + 1)
    ELSE <<c, e>>

\* c with its d lowest digits dropped, ROUND_HALF_EVEN
DropDigits(c, d) ==
    IF d <= 0 THEN c
    ELSE LET p == Pow10(d)
             a == AbsInt(c)
             q == a \div p
             r == a % p
             up == (2 * r > p) \/ (2 * r = p /\ q % 2 = 1)
         IN  SignInt(c) * (IF up THEN q + 1 ELSE q)

\* the context's rounding of the exact value c * 10^e
DecRound(c, e) ==
    LET d == Digits(c) - ModelPrec
    IN  IF d <= 0 THEN Dec(c, e) ELSE Dec(DropDigits(c, d), e + d)

DecNeg(x) == <<-x[1], x[2]>>

\* exact sum of x and y as an unrounded coefficient and exponent
RawSum(x, y) ==
    LET m == IF x[2] < y[2] THEN x[2] ELSE y[2]
    IN  IF x[1] = 0 THEN y
        ELSE IF y[1] = 0 THEN x
        ELSE <<x[1] * Pow10(x[2] - m) + y[1] * Pow10(y[2] - m), m>>

AlignedSum(x, y) == DecRound(RawSum(x, y)[1], RawSum(x, y)[2])

\* y replaced by a sticky digit when it lies wholly below x's digits
Sticky(x, y) ==
    IF x[1] # 0 /\ y[1] # 0 /\ y[2] + Digits(y[1]) <= x[2] - ModelPrec - 1
    THEN <<SignInt(y[1]), x[2] - ModelPrec - 2>>
    ELSE y

DecAdd(x, y) == AlignedSum(Sticky(y, x), Sticky(x, y))

DecSub(x, y) == DecAdd(x, DecNeg(y))

DecMul(x, y) == DecRound(x[1] * y[1], x[2] + y[2])

\* x / y for y # 0, correctly rounded
DecDiv(x, y) ==
    LET s0 == Digits(y[1]) - Digits(x[1]) + ModelPrec + 1
        s == IF s0 < 0 THEN 0 ELSE s0
        n == AbsInt(x[1]) * Pow10(s)
        d == AbsInt(y[1])
        q == n \div d
        st == IF n % d = 0 THEN 0 ELSE 1
    IN  DecRound(SignInt(x[1]) * SignInt(y[1]) * (10 * q + st), x[2] - y[2] - s - 1)

RECURSIVE ISqrt(_, _, _)
ISqrt(n, lo, hi) ==
    IF lo >= hi THEN lo
    ELSE LET mid == (lo + hi + 1) \div 2
         IN  IF mid * mid <= n THEN ISqrt(n, mid, hi) ELSE ISqrt(n, lo, mid - 1)

\* Decimal(math.sqrt(x)) for x >= 0; the float result is carried to the
\* model's precision
DecSqrt(x) ==
    IF x[1] = 0 THEN <<0, 0>>
    ELSE LET want == 2 * ModelPrec + 2
             k0 == IF Digits(x[1]) >= want THEN 0 ELSE want - Digits(x[1])
             k == IF (x[2] - k0) % 2 = 0 THEN k0 ELSE k0 + 1
             n == x[1] * Pow10(k)
         IN  DecRound(ISqrt(n, 0, 46340), (x[2] - k) \div 2)

\* x < y
DecLess(x, y) ==
    LET ax == Digits(x[1]) + x[2]
        ay == Digits(y[1]) + y[2]
        m == IF x[2] < y[2] THEN x[2] ELSE y[2]
    IN  IF SignInt(x[1]) # SignInt(y[1]) THEN SignInt(x[1]) < SignInt(y[1])
        ELSE IF x[1] = 0 THEN FALSE
        ELSE IF ax # ay THEN (IF x[1] > 0 THEN ax < ay ELSE ax > ay)
        ELSE x[1] * Pow10(x[2] - m) < y[1] * Pow10(y[2] - m)

DecAbs(x) == <<AbsInt(x[1]), x[2]>>

\* round(x, places)
DecQuantize(x, places) ==
    LET d == (-places) - x[2]
    IN  IF d <= 0 THEN x ELSE Dec(DropDigits(x[1], d), x[2] + d)

----------------------------------------------------------------------------
(* Python values and outcomes of a call *)

PyVector(v) == [type |-> "Vector", value |-> v]

PyNumber(d) == [type |-> "Number", value |-> d]

PyNone == [type |-> "NoneType", value |-> <<>>]

Return(kind, value) == [kind |-> kind, value |-> value]

Raise(exc, msg) == [kind |-> "raise", value |-> <<exc, msg>>]

Raised(out, exc) == out.kind = "raise" /\ out.value[1] = exc

\* Decimal(x): exact for a number, TypeError for anything else
ToDecimal(x) ==
    IF x.type = "Number" THEN Return("Decimal", Dec(x.value[1], x.value[2]))
    ELSE Raise("TypeError", "conversion to Decimal is not supported")

\* x / y on Decimals, with the context's DivisionByZero trap
Divide(x, y) ==
    IF y[1] = 0 THEN Raise("ZeroDivisionError", "DivisionByZero")
    ELSE Return("Decimal", DecDiv(x, y))

\* sum(seq), starting from 0
RECURSIVE SumUpTo(_, _)
SumUpTo(seq, n) ==
    IF n = 0 THEN <<0, 0>> ELSE DecAdd(SumUpTo(seq, n - 1), seq[n])

Sum(seq) == SumUpTo(seq, Len(seq))

Min(a, b) == IF a < b THEN a ELSE b

\* the positions zip(a, b) pairs up: it stops at the shorter tuple
ZipIndices(a, b) == 1..Min(Len(a), Len(b))

----------------------------------------------------------------------------
(* class Vector *)

Vector(coordinates) ==
    [coordinates |-> [i \in 1..Len(coordinates) |->
                        Dec(coordinates[i][1], coordinates[i][2])],
     length |-> Len(coordinates)]

\* scale with the coordinates shifted by the scalar instead of multiplied
scaleShifted(self, scalar) ==
    LET k == ToDecimal(scalar)
    IN  IF k.kind = "raise" THEN k
        ELSE Return("Vector",
                    Vector([i \in 1..Len(self.coordinates) |->
                              DecAdd(self.coordinates[i], k.value)]))

scale(self, scalar) ==
    LET k == ToDecimal(scalar)
    IN  IF k.kind = "raise" THEN k
        ELSE Return("Vector",
                    Vector([i \in 1..Len(self.coordinates) |->
                              DecMul(self.coordinates[i], k.value)]))

\* dot without the comparison of the lengths
dotUnchecked(self, vector) ==
    IF vector.type # "Vector"
    THEN Raise("TypeError", "Items must be of type Vector.")
    ELSE Return("Decimal",
                Sum([i \in ZipIndices(self.coordinates, vector.value.coordinates) |->
                       DecMul(self.coordinates[i], vector.value.coordinates[i])]))

dot(self, vector) ==
    IF vector.type # "Vector"
    THEN Raise("TypeError", "Items must be of type Vector.")
    ELSE IF self.length # vector.value.length
    THEN Raise("TypeError", "Vectors must have equal size.")
    ELSE Return("Decimal",
                Sum([i \in ZipIndices(self.coordinates, vector.value.coordinates) |->
                       DecMul(self.coordinates[i], vector.value.coordinates[i])]))

magnitude(self) ==
    DecSqrt(Sum([i \in 1..Len(self.coordinates) |->
                   DecMul(self.coordinates[i], self.coordinates[i])]))

\* normalized without the except clause
normalizedUncaught(self) ==
    LET q == Divide(<<1, 0>>, magnitude(self))
    IN  IF q.kind = "raise" THEN q ELSE scale(self, PyNumber(q.value))

normalized(self) ==
    LET q == Divide(<<1, 0>>, magnitude(self))
    IN  IF Raised(q, "ZeroDivisionError")
        THEN Raise("CannotNormalizeZeroVectorError", "")
        ELSE scale(self, PyNumber(q.value))

is_zero(self, tolerance) == DecLess(magnitude(self), tolerance)

\* math.acos(round(p, 3)), kept symbolic: the angle whose cosine is r
acos(r) ==
    IF DecLess(<<1, 0>>, DecAbs(r)) THEN Raise("ValueError", "math domain error")
    ELSE Return("float", r)

angle_with(self, vector, radians) ==
    IF vector.type # "Vector"
    THEN Raise("TypeError", "Items must be of type Vector.")
    ELSE IF self.length # vector.value.length
    THEN Raise("TypeError", "Vectors must have equal size.")
    ELSE LET u1 == normalized(self)
             u2 == normalized(vector.value)
         IN  IF u1.kind = "raise" THEN u1
             ELSE IF u2.kind = "raise" THEN u2
             ELSE LET p == dot(u1.value, PyVector(u2.value))
                      teta == acos(DecQuantize(p.value, 3))
                  IN  IF teta.kind = "raise" THEN teta
                      ELSE Return("Angle",
                                  [cos |-> teta.value,
                                   unit |-> IF radians THEN "radians" ELSE "degrees"])

\* angle == 0 and angle == pi, for an angle in radians
AngleIsZero(angle) == angle.cos = <<1, 0>>

AngleIsPi(angle) == angle.cos = <<-1, 0>>

\* is_parallel_with with the angle computed before the zero tests
is_parallel_withAngleFirst(self, vector) ==
    IF vector.type # "Vector"
    THEN Raise("TypeError", "Items must be of type Vector.")
    ELSE IF self.length # vector.value.length
    THEN Raise("TypeError", "Vectors must have equal size.")
    ELSE LET angle == angle_with(self, vector, TRUE)
         IN  IF angle.kind = "raise" THEN angle
             ELSE Return("bool",
                         \/ AngleIsZero(angle.value)
                         \/ AngleIsPi(angle.value)
                         \/ is_zero(self, DEFAULT_TOLERANCE)
                         \/ is_zero(vector.value, DEFAULT_TOLERANCE))

is_parallel_with(self, vector) ==
    IF vector.type # "Vector"
    THEN Raise("TypeError", "Items must be of type Vector.")
    ELSE IF self.length # vector.value.length
    THEN Raise("TypeError", "Vectors must have equal size.")
    ELSE IF is_zero(self, DEFAULT_TOLERANCE) THEN Return("bool", TRUE)
    ELSE IF is_zero(vector.value, DEFAULT_TOLERANCE) THEN Return("bool", TRUE)
    ELSE LET angle == angle_with(self, vector, TRUE)  \* evaluated twice, same value
         IN  IF angle.kind = "raise" THEN angle
             ELSE Return("bool", AngleIsZero(angle.value) \/ AngleIsPi(angle.value))

is_orthogonal_with(self, vector, tolerance) ==
    IF vector.type # "Vector"
    THEN Raise("TypeError", "Items must be of type Vector.")
    ELSE IF self.length # vector.value.length
    THEN Raise("TypeError", "Vectors must have equal size.")
    ELSE Return("bool", DecLess(DecAbs(dot(self, vector).value), tolerance))

add(self, other) ==
    IF other.type = "Vector"
    THEN Return("Vector",
                Vector([i \in ZipIndices(self.coordinates, other.value.coordinates) |->
                          DecAdd(self.coordinates[i], other.value.coordinates[i])]))
    ELSE IF other.type = "Number"
    THEN Return("Vector",
                Vector([i \in 1..Len(self.coordinates) |->
                          DecAdd(self.coordinates[i], ToDecimal(other).value)]))
    ELSE Raise("TypeError", "Addition argument must be a vector or a scalar.")

\* sub with the body of add
subAdds(self, other) ==
    IF other.type = "Vector"
    THEN Return("Vector",
                Vector([i \in ZipIndices(self.coordinates, other.value.coordinates) |->
                          DecAdd(self.coordinates[i], other.value.coordinates[i])]))
    ELSE IF other.type = "Number"
    THEN Return("Vector",
                Vector([i \in 1..Len(self.coordinates) |->
                          DecAdd(self.coordinates[i], ToDecimal(other).value)]))
    ELSE Raise("TypeError", "Subtraction argument must be a vector or a scalar.")

sub(self, other) ==
    IF other.type = "Vector"
    THEN Return("Vector",
                Vector([i \in ZipIndices(self.coordinates, other.value.coordinates) |->
                          DecSub(self.coordinates[i], other.value.coordinates[i])]))
    ELSE IF other.type = "Number"
    THEN Return("Vector",
                Vector([i \in 1..Len(self.coordinates) |->
                          DecSub(self.coordinates[i], ToDecimal(other).value)]))
    ELSE Raise("TypeError", "Subtraction argument must be a vector or a scalar.")

mul(self, other) ==
    IF other.type = "Number" THEN scale(self, other)
    ELSE IF other.type = "Vector" THEN dot(self, other)
    ELSE Raise("TypeError", "Operation not supported.")

\* eq without the comparison of the lengths
eqPrefix(self, vector) ==
    IF vector.type # "Vector"
    THEN Return("bool", FALSE)
    ELSE Return("bool",
                \A i \in 1..Min(self.length, vector.value.length) :
                    self.coordinates[i] = vector.value.coordinates[i])

eq(self, vector) ==
    IF vector.type # "Vector" \/ self.length # vector.value.length
    THEN Return("bool", FALSE)
    ELSE Return("bool",
                \A i \in 1..self.length :
                    self.coordinates[i] = vector.value.coordinates[i])

\* component_parallel_to without the except clause
component_parallel_toUncaught(self, vector) ==
    IF vector.type # "Vector"
    THEN Raise("AttributeError", "object has no attribute 'normalized'")
    ELSE LET basis == normalized(vector.value)
         IN  IF basis.kind = "raise" THEN basis
             ELSE LET weight == dot(self, PyVector(basis.value))
                  IN  IF weight.kind = "raise" THEN weight
                      ELSE scale(basis.value, PyNumber(weight.value))

component_parallel_to(self, vector) ==
    IF vector.type # "Vector"
    THEN Raise("AttributeError", "object has no attribute 'normalized'")
    ELSE LET basis == normalized(vector.value)
         IN  IF Raised(basis, "CannotNormalizeZeroVectorError")
             THEN Raise("NoUniqueParallelComponentError", "")
             ELSE LET weight == dot(self, PyVector(basis.value))
                  IN  IF weight.kind = "raise" THEN weight
                      ELSE scale(basis.value, PyNumber(weight.value))

component_orthogonal_to(self, vector) ==
    LET projection == component_parallel_to(self, vector)
    IN  IF Raised(projection, "NoUniqueParallelComponentError")
        THEN Raise("NoUniqueOrthogonalComponentError", "")
        ELSE IF projection.kind = "raise" THEN projection
        ELSE sub(self, PyVector(projection.value))

cross_product(v1, v2) ==
    IF v1.type # "Vector" \/ v2.type # "Vector"
    THEN Raise("AttributeError", "object has no attribute 'coordinates'")
    ELSE LET v == v1.value.coordinates
             w == v2.value.coordinates
         IN  IF Len(v) < 3 \/ Len(w) < 3
             THEN Raise("IndexError", "tuple index out of range")
             ELSE LET x == DecSub(DecMul(v[2], w[3]), DecMul(w[2], v[3]))
                      y == DecNeg(DecSub(DecMul(v[1], w[3]), DecMul(w[1], v[3])))
                      z == DecSub(DecMul(v[1], w[2]), DecMul(w[1], v[2]))
                  IN  Return("Vector", Vector(<<x, y, z>>))

----------------------------------------------------------------------------
(* A caller: constructs Vector objects and calls the operations on them.   *)
(* heap holds every Vector object created so far, in creation order; an    *)
(* object is named by its position.  trace records each call with its      *)
(* receiver, its argument and what it returned or raised.                  *)

VARIABLES heap, trace

vars == <<heap, trace>>

\* coordinate lists handed to Vector(...)
TestVectors ==
    { << <<0, 0>>, <<0, 0>> >>,
      << <<0, 0>>, <<0, 0>>, <<0, 0>> >>,
      << <<1, 0>>, <<1, 0>> >>,
      << <<-3, 0>>, <<-3, 0>> >>,
      << <<1001, 0>>, <<15, -1>> >>,
      << <<1, -11>> >>,
      << <<1, 0>>, <<2, 0>>, <<3, 0>> >>,
      << <<2, 0>>, <<-1, 0>>, <<1001, -3>> >>,
      << <<1, 0>>, <<2, 0>>, <<3, 0>>, <<4, 0>> >> }

\* numbers handed to scale, +, - and *
Scalars == { PyNumber(<<2, 0>>), PyNumber(<<1005, -2>>) }

Ref(i) == [type |-> "ref", value |-> i]

Deref(h, arg) == IF arg.type = "ref" THEN PyVector(h[arg.value]) ELSE arg

\* what a caller may pass where a vector or a number is expected
Operands == {Ref(i) : i \in DOMAIN heap} \cup Scalars \cup {PyNone}

Init == heap = <<>> /\ trace = <<>>

Construct ==
    \E coordinates \in TestVectors :
        /\ Len(heap) < MaxInputs
        /\ heap' = Append(heap, Vector(coordinates))
        /\ UNCHANGED trace

\* the objects after a call on object i: the result written into object i
StoreInSelf(h, i, out) ==
    IF out.kind = "Vector" THEN [h EXCEPT ![i] = out.value] ELSE h

\* the objects after a call on object i: a Vector result is a new object
Store(h, i, out) ==
    IF out.kind = "Vector" THEN Append(h, out.value) ELSE h

\* the call returns and is recorded
Called(op, i, args, out) ==
    /\ heap' = Store(heap, i, out)
    /\ trace' = Append(trace,
                       [op |-> op, self |-> i, args |-> args,
                        result |-> IF out.kind = "Vector"
                                   THEN Return("Vector", Len(heap) + 1)
                                   ELSE out])

Scale ==
    \E i \in DOMAIN heap, k \in Scalars \cup {PyNone} :
        Called("scale", i, <<k>>, scale(heap[i], k))

Dot ==
    \E i \in DOMAIN heap, a \in Operands :
        Called("dot", i, <<a>>, dot(heap[i], Deref(heap, a)))

Magnitude ==
    \E i \in DOMAIN heap :
        Called("magnitude", i, <<>>, Return("Decimal", magnitude(heap[i])))

Normalized ==
    \E i \in DOMAIN heap :
        Called("normalized", i, <<>>, normalized(heap[i]))

IsZero ==
    \E i \in DOMAIN heap :
        Called("is_zero", i, <<>>,
               Return("bool", is_zero(heap[i], DEFAULT_TOLERANCE)))

IsParallelWith ==
    \E i \in DOMAIN heap, a \in Operands :
        Called("is_parallel_with", i, <<a>>,
               is_parallel_with(heap[i], Deref(heap, a)))

IsOrthogonalWith ==
    \E i \in DOMAIN heap, a \in Operands :
        Called("is_orthogonal_with", i, <<a>>,
               is_orthogonal_with(heap[i], Deref(heap, a), DEFAULT_TOLERANCE))

AngleWith ==
    \E i \in DOMAIN heap, a \in Operands, radians \in BOOLEAN :
        Called("angle_with", i, <<a, radians>>,
               angle_with(heap[i], Deref(heap, a), radians))

Add ==
    \E i \in DOMAIN heap, a \in Operands :
        Called("add", i, <<a>>, add(heap[i], Deref(heap, a)))

Sub ==
    \E i \in DOMAIN heap, a \in Operands :
        Called("sub", i, <<a>>, sub(heap[i], Deref(heap, a)))

Mul ==
    \E i \in DOMAIN heap, a \in Operands :
        Called("mul", i, <<a>>, mul(heap[i], Deref(heap, a)))

Eq ==
    \E i \in DOMAIN heap, a \in Operands :
        Called("eq", i, <<a>>, eq(heap[i], Deref(heap, a)))

ComponentParallelTo ==
    \E i \in DOMAIN heap, a \in Operands :
        Called("component_parallel_to", i, <<a>>,
               component_parallel_to(heap[i], Deref(heap, a)))

ComponentOrthogonalTo ==
    \E i \in DOMAIN heap, a \in Operands :
        Called("component_orthogonal_to", i, <<a>>,
               component_orthogonal_to(heap[i], Deref(heap, a)))

CrossProduct ==
    \E i \in DOMAIN heap, a \in Operands :
        Called("cross_product", i, <<a>>,
               cross_product(PyVector(heap[i]), Deref(heap, a)))

Next ==
    \/ Construct
    \/ Len(trace) < MaxCalls /\ Scale
    \/ Len(trace) < MaxCalls /\ Dot
    \/ Len(trace) < MaxCalls /\ Magnitude
    \/ Len(trace) < MaxCalls /\ Normalized
    \/ Len(trace) < MaxCalls /\ IsZero
    \/ Len(trace) < MaxCalls /\ IsParallelWith
    \/ Len(trace) < MaxCalls /\ IsOrthogonalWith
    \/ Len(trace) < MaxCalls /\ AngleWith
    \/ Len(trace) < MaxCalls /\ Add
    \/ Len(trace) < MaxCalls /\ Sub
    \/ Len(trace) < MaxCalls /\ Mul
    \/ Len(trace) < MaxCalls /\ Eq
    \/ Len(trace) < MaxCalls /\ ComponentParallelTo
    \/ Len(trace) < MaxCalls /\ ComponentOrthogonalTo
    \/ Len(trace) < MaxCalls /\ CrossProduct

Spec == Init /\ [][Next]_vars

\* a caller that only adds, subtracts and compares
NextArith ==
    \/ Construct
    \/ Len(trace) < MaxChain /\ Add
    \/ Len(trace) < MaxChain /\ Sub
    \/ Len(trace) < MaxChain /\ Eq

SpecArith == Init /\ [][NextArith]_vars

----------------------------------------------------------------------------
(* Properties *)

Calls == {trace[n] : n \in DOMAIN trace}

\* the calls of one of the operations ops whose argument is a Vector
VectorCalls(ops) == {c \in Calls : c.op \in ops /\ c.args[1].type = "ref"}

Self(c) == heap[c.self]

Other(c) == heap[c.args[1].value]

AllZero(v) == \A i \in 1..Len(v.coordinates) : v.coordinates[i] = <<0, 0>>

DimensionMismatch(out) ==
    out.kind = "raise" /\ out.value = <<"TypeError", "Vectors must have equal size.">>

Raises(out, exc) == out.kind = "raise" /\ out.value[1] = exc

\* the exact product x * y, unrounded
ExactProduct(x, y) == Dec(x[1] * y[1], x[2] + y[2])

\* x is representable in the context precision
Fits(x) == Digits(x[1]) <= ModelPrec

\* x + y is computed without rounding
SumIsExact(x, y) ==
    /\ Sticky(x, y) = y
    /\ Sticky(y, x) = x
    /\ Fits(Dec(RawSum(x, y)[1], RawSum(x, y)[2]))

ScaleCalls == {c \in Calls : c.op = "scale" /\ c.args[1].type = "Number"}

Scalar(c) == Dec(c.args[1].value[1], c.args[1].value[2])

\* C1 as stated: scale(v, k) returns a vector of v's dimension whose i-th
\* coordinate is exactly v's i-th coordinate times k.
C1_ScaleExactProduct ==
    \A c \in ScaleCalls :
        /\ c.result.kind = "Vector"
        /\ heap[c.result.value].length = Self(c).length
        /\ \A i \in 1..Self(c).length :
               heap[c.result.value].coordinates[i]
                   = ExactProduct(Self(c).coordinates[i], Scalar(c))

\* C1 amended: scale(v, k) returns a vector of v's dimension whose i-th
\* coordinate is exactly v's i-th coordinate times k when that product fits
\* the decimal context's precision, and that product rounded half-even to
\* the context's precision otherwise.
C1_ScaleRoundedProduct ==
    \A c \in ScaleCalls :
        /\ c.result.kind = "Vector"
        /\ heap[c.result.value].length = Self(c).length
        /\ Len(heap[c.result.value].coordinates) = Len(Self(c).coordinates)
        /\ \A i \in 1..Self(c).length :
               LET exact == ExactProduct(Self(c).coordinates[i], Scalar(c))
                   got == heap[c.result.value].coordinates[i]
               IN  /\ Fits(exact) => got = exact
                   /\ ~Fits(exact) => got = DecRound(exact[1], exact[2])

\* a scale call has returned with one coordinate rounded and one exact
C1_Witness ==
    \E c \in ScaleCalls :
        /\ c.result.kind = "Vector"
        /\ \E i \in 1..Self(c).length :
               ~Fits(ExactProduct(Self(c).coordinates[i], Scalar(c)))
        /\ \E i \in 1..Self(c).length :
               /\ Self(c).coordinates[i] # <<0, 0>>
               /\ Fits(ExactProduct(Self(c).coordinates[i], Scalar(c)))

\* C2: self + other and self - other fail with the dimension-mismatch error
\* whenever other is a Vector of another dimension; no vector is returned.
C2_AddSubDimensionMismatch ==
    \A c \in VectorCalls({"add", "sub"}) :
        Self(c).length # Other(c).length => DimensionMismatch(c.result)

\* C3: dot, angle_with, is_parallel_with and is_orthogonal_with each fail
\* with the dimension-mismatch error whenever the two vectors have unequal
\* dimensions, zero vectors included; none returns a scalar or a boolean.
C3_DimensionChecked ==
    \A c \in VectorCalls({"dot", "angle_with", "is_parallel_with",
                          "is_orthogonal_with"}) :
        Self(c).length # Other(c).length => DimensionMismatch(c.result)

\* is_parallel_with has been called on a zero vector and a vector of another
\* dimension
C3_Witness ==
    \E c \in VectorCalls({"is_parallel_with"}) :
        /\ Self(c).length # Other(c).length
        /\ AllZero(Self(c))
        /\ c.result.kind = "raise"

\* C4: cross_product fails with a dimension error (the equal-size error, or
\* the out-of-range coordinate index) whenever either argument is not
\* 3-dimensional, and returns a Vector only when both are.
C4_CrossProductOnly3D ==
    \A c \in VectorCalls({"cross_product"}) :
        /\ (Self(c).length # 3 \/ Other(c).length # 3)
               => (DimensionMismatch(c.result) \/ Raises(c.result, "IndexError"))
        /\ c.result.kind = "Vector" => (Self(c).length = 3 /\ Other(c).length = 3)

\* C5: for a basis whose coordinates are all zero, component_parallel_to
\* fails with NoUniqueParallelComponentError and component_orthogonal_to
\* with NoUniqueOrthogonalComponentError, whatever the vector projected;
\* CannotNormalizeZeroVectorError does not reach the caller.
C5_ZeroBasisTranslated ==
    /\ \A c \in VectorCalls({"component_parallel_to"}) :
           AllZero(Other(c)) => Raises(c.result, "NoUniqueParallelComponentError")
    /\ \A c \in VectorCalls({"component_orthogonal_to"}) :
           AllZero(Other(c)) => Raises(c.result, "NoUniqueOrthogonalComponentError")

\* component_orthogonal_to has failed on a zero basis of another dimension
\* than the vector projected
C5_Witness ==
    \E c \in VectorCalls({"component_orthogonal_to"}) :
        /\ AllZero(Other(c))
        /\ ~AllZero(Self(c))
        /\ Self(c).length # Other(c).length
        /\ c.result.kind = "raise"

NormalizedCalls == {c \in Calls : c.op = "normalized"}

C7_ZeroVectorParallel ==
    \A c \in VectorCalls({"is_parallel_with"}) :
        (Self(c).length = Other(c).length /\ (AllZero(Self(c)) \/ AllZero(Other(c))))
            => (c.result.kind = "bool" /\ c.result.value)

\* is_parallel_with has returned for a nonzero vector and a zero vector of
\* its dimension
C7_Witness ==
    \E c \in VectorCalls({"is_parallel_with"}) :
        /\ Self(c).length = Other(c).length
        /\ ~AllZero(Self(c))
        /\ AllZero(Other(c))
        /\ c.result.kind = "bool"

\* C8: two vectors compare equal iff they have the same dimension and the
\* same coordinates in order; a vector never equals a longer vector it is a
\* prefix of.
C8_Equality ==
    \A c \in VectorCalls({"eq"}) :
        /\ c.result.kind = "bool"
        /\ c.result.value
               <=> (Self(c).length = Other(c).length
                    /\ Self(c).coordinates = Other(c).coordinates)

\* == has been called on a vector and a longer vector it is a prefix of
C8_Witness ==
    \E c \in VectorCalls({"eq"}) :
        /\ Self(c).length < Other(c).length
        /\ Self(c).length > 0
        /\ \A i \in 1..Self(c).length :
               Self(c).coordinates[i] = Other(c).coordinates[i]
        /\ c.result.kind = "bool"

\* C9: in every state each Vector's dimension is its number of coordinates;
\* no construction and no call, returning or raising, changes an existing
\* Vector, and a vector result is a newly created object.
C9_Immutable ==
    /\ [](\A i \in DOMAIN heap : heap[i].length = Len(heap[i].coordinates))
    /\ [][/\ \A i \in DOMAIN heap : i \in DOMAIN heap' /\ heap'[i] = heap[i]
          /\ (trace' # trace /\ trace'[Len(trace')].result.kind = "Vector")
                => /\ trace'[Len(trace')].result.value \notin DOMAIN heap
                   /\ trace'[Len(trace')].result.value \in DOMAIN heap'
          /\ (trace' # trace /\ trace'[Len(trace')].result.kind # "Vector")
                => heap' = heap]_vars

\* a call on two existing vectors has returned a third, and the two are as
\* constructed
C9_Witness ==
    /\ Len(heap) = MaxInputs + 1
    /\ \E c \in Calls : c.result.kind = "Vector" /\ c.result.value = Len(heap)
    /\ \A i \in 1..MaxInputs : \E coordinates \in TestVectors :
           heap[i] = Vector(coordinates)

\* the pairs <<n, n + 1>> of consecutive calls (a + b) then (that sum) - b
\* on vectors a and b of equal dimension
InverseChains ==
    {n \in 1..(Len(trace) - 1) :
        /\ trace[n].op = "add"
        /\ trace[n].args[1].type = "ref"
        /\ heap[trace[n].self].length = heap[trace[n].args[1].value].length
        /\ trace[n + 1].op = "sub"
        /\ trace[n + 1].args[1] = trace[n].args[1]
        /\ trace[n + 1].self = trace[n].result.value}

ChainA(n) == heap[trace[n].self]

ChainB(n) == heap[trace[n].args[1].value]

ChainResult(n) == heap[trace[n + 1].result.value]

\* C10 as stated: for all vectors a and b of equal dimension,
\* (a + b) - b == a.
C10_AddSubInverse ==
    \A n \in InverseChains :
        eq(ChainResult(n), PyVector(ChainA(n))).value

\* every coordinate of a, and every coordinate sum of a and b, is exact in
\* the context precision
ExactInContext(a, b) ==
    \A i \in 1..a.length :
        Fits(a.coordinates[i]) /\ SumIsExact(a.coordinates[i], b.coordinates[i])

\* C10 amended: for all vectors a and b of equal dimension such that every
\* coordinate of a and every coordinate sum a_i + b_i is representable in
\* the decimal context's precision, (a + b) - b == a.
C10_AddSubInverseExact ==
    \A n \in InverseChains :
        ExactInContext(ChainA(n), ChainB(n))
            => eq(ChainResult(n), PyVector(ChainA(n))).value

\* (a + b) - b has been computed for nonzero a and b within the precision
C10_Witness ==
    \E n \in InverseChains :
        /\ ExactInContext(ChainA(n), ChainB(n))
        /\ ~AllZero(ChainA(n))
        /\ ~AllZero(ChainB(n))
        /\ ChainA(n) # ChainB(n)

====
